---------------------------- MODULE Spec2Model ----------------------------
(***************************************************************************)
(* A model of x1e-ec-tool (tool.py, effects.py): the EC register protocol  *)
(* over the I2C bus, the fan controller with its RPM model inversion, the  *)
(* calibration routine, the temperature report loop and the keyboard       *)
(* backlight "fire" effect.                                                *)
(*                                                                         *)
(* Each part of the program is a specification of its own over the same    *)
(* variables; the variables a specification does not use stay at their     *)
(* idle values.                                                            *)
(*                                                                         *)
(* Numbers.  Python floats are modelled by exact rational arithmetic on    *)
(* integers (temperatures in millidegrees as read from sysfs, polynomial   *)
(* coefficients as decimal mantissas), and round() by round-half-to-even.  *)
(***************************************************************************)
EXTENDS Integers, Sequences, FiniteSets, TLC

VARIABLES
    info,       \* tool.info: the name of the device model in use
    fan_id,     \* speed_for_rpm: argument fan_id
    rpm,        \* speed_for_rpm: argument rpm, in units of 1/RpmScale RPM
    rpmPc,      \* speed_for_rpm: "idle" | "call" | "returned" | "raised"
    ret,        \* speed_for_rpm: the value returned (read it when "returned")
    exc,        \* speed_for_rpm: the exception raised ("" when none)
    rounded,    \* speed_for_rpm: round(val), before the final clamp
    warned      \* speed_for_rpm: TRUE when the out-of-domain warning printed

VARIABLES
    ecCall,     \* the EC operation in progress: [fn, args]
    todo,       \* the bus steps of ecCall still to run, in program order
    bus,        \* the transactions sent on i2c_fd by ecCall, in order
    res,        \* Buffer.array() of the last read that succeeded
    ecPc,       \* "idle" | "running" | "returned" | "raised"
    ecExc,      \* the exception that ended ecCall ("" when none)
    ecWarn,     \* TRUE when ecCall printed its invalid-argument warning
    polls       \* ec_settle: busy polls of the settle in progress

VARIABLES
    prog,       \* the loop run: "temp-loop" (tool.py) | "fire" (effects.py)
    zones,      \* len(zones): the thermal zone files opened
    loopPc,     \* "idle" | "start" | "read" | "report" | "sending" | "map"
                \*   | "writing" | "sleep" | "returned" | "raised"
    zi,         \* for fd in zones: the zones read in this cycle
    temp,       \* temp, in millidegrees Celsius
    rgb,        \* fire: new, the triple computed in this cycle
    cur,        \* fire: cur
    loopExc,    \* the exception that ended the loop ("" when none)
    failedAt,   \* where it was raised: "" | "open" | "sensor" | "bus"
    readFailed, \* history: TRUE once a sensor read of the loop has failed
    readings,   \* history: temp-loop, what the zones read in this cycle, in
                \*   the order read
    lastSample, \* history: temp of the last cycle mapped (-1: none)
    runLen,     \* history: cycles of the current run of equal samples
    runWrites,  \* history: backlight writes issued in the current run
    lastWritten,\* history: the triple of the last backlight write issued
    rewrote     \* history: TRUE once a backlight write repeated the triple
                \*   of the write before it

VARIABLES
    calPc,      \* measure_fan_model: the statement reached ("idle" if not run)
    calWait,    \* TRUE while the EC function called at calPc is running
    step,       \* argument step
    ci,         \* i, the duty of the sweep in progress
    cj,         \* j, the position of the for j in fan_ids in progress
    firsts,     \* per fan: the lowest duty with a non-zero rpm in data[j],
                \*   0 while data[j] holds no non-zero sample
    first_spins,\* first_spins, per fan
    calExc,     \* the exception that ended the routine ("" when none)
    manualSet,  \* history: set_fan_mode(FAN_MODE_MANUAL) has returned
    autoIssued, \* history: set_fan_mode(FAN_MODE_AUTO) has been called
    upLog,      \* history: the duties of the upward sweep, in the order set
    upReads,    \* history: per fan, its reads of the upward sweep in order,
                \*   each <<duty, whether the rpm was non-zero>>
    spinWrites  \* history: per fan, the assignments to first_spins[j] made
                \*   by the upward sweep

VARIABLES
    model,      \* what /sys/firmware/devicetree/base/model holds
    fault,      \* what is wrong with the bus device: "none" | "nodev" (not
                \*   one i2c-* entry) | "noopen" (os.open fails) | "owned"
                \*   (the I2C_SLAVE ioctl fails)
    argv,       \* sys.argv[1:]
    mainPc,     \* "idle" | "init" | "main" | "call" | "long" | "exited"
    mi,         \* i of for i in range(len(info.fans)) / enumerate(info.fans)
    status      \* the exit status of the process (-1 while it runs)

VARIABLES
    procs,      \* two callers of indexed EC operations on the same bus:
                \*   per caller [c: the call, todo: its bus steps still to
                \*   run, pc, polls]
    serial,     \* TRUE: the second caller starts when the first has ended
                \*   (one thread); FALSE: their transactions interleave
    regs,       \* the EC registers (0xc4, 0x31) and (0xc4, 0x32): the value
                \*   last written to each
    cmdLog      \* history: per write to (0xc4, 0x30), who wrote it and
                \*   what 0x31 and 0x32 held

pairVars == <<procs, serial, regs, cmdLog>>
mainVars == <<model, fault, argv, mainPc, mi, status>>
rpmVars == <<info, fan_id, rpm, rpmPc, ret, exc, rounded, warned>>
calHist == <<upLog, upReads, spinWrites>>
calVars == <<calPc, calWait, step, ci, cj, firsts, first_spins, calExc,
             manualSet, autoIssued, calHist>>
ecVars == <<ecCall, todo, bus, res, ecPc, ecExc, ecWarn, polls>>
loopVars == <<prog, zones, loopPc, zi, temp, rgb, cur, loopExc, failedAt,
              readFailed, readings,
              lastSample, runLen, runWrites, lastWritten, rewrote>>

vars == <<rpmVars, ecVars, loopVars, calVars, mainVars, pairVars>>

pairIdle ==
    /\ procs = <<>>
    /\ serial = TRUE
    /\ regs = <<>>
    /\ cmdLog = <<>>

mainIdle ==
    /\ model = ""
    /\ fault = "none"
    /\ argv = <<>>
    /\ mainPc = "idle"
    /\ mi = 0
    /\ status = 0 - 1

calIdle ==
    /\ calPc = "idle"
    /\ calWait = FALSE
    /\ step = 0
    /\ ci = 0
    /\ cj = 0
    /\ firsts = <<>>
    /\ first_spins = <<>>
    /\ calExc = ""
    /\ manualSet = FALSE
    /\ autoIssued = FALSE
    /\ upLog = <<>>
    /\ upReads = <<>>
    /\ spinWrites = <<>>

rpmIdle ==
    /\ fan_id = 0
    /\ rpm = 0
    /\ rpmPc = "idle"
    /\ ret = 0
    /\ exc = ""
    /\ rounded = 0
    /\ warned = FALSE

(***************************************************************************)
(* Bounds of the model.                                                    *)
(***************************************************************************)
\* speed_for_rpm is tried on every rpm in -MaxNegRpm .. MaxRpm.  Both RPM
\* models of the table peak below 9300 RPM, so the range holds targets
\* above the peak (negative discriminant).
MaxRpm == 9300
MaxNegRpm == 300
\* fan ids tried: 0 .. MaxFanId (the table's model has fans 0 and 1)
MaxFanId == 2
\* round(val) is searched for in -RoundSpan .. RoundSpan
RoundSpan == 512
\* ec_settle: at most MaxPolls polls of one settle read the busy flag set
MaxPolls == 2
\* the thermal zones read TempStep * i millidegrees, i in -1 .. MaxTempSteps
MaxTempSteps == 36
\* runLen counts up to RunCap
RunCap == 3
\* measure_fan_model is run with step = CalStep (main leaves it at 1; a
\* larger step walks the same statements over fewer duties)
CalStep == 64

(***************************************************************************)
(* Small helpers.                                                          *)
(***************************************************************************)
Min(x, y) == IF x <= y THEN x ELSE y
Max(x, y) == IF x >= y THEN x ELSE y

RECURSIVE Pow10(_)
Pow10(n) == IF n = 0 THEN 1 ELSE 10 * Pow10(n - 1)

(***************************************************************************)
(* tool.py: class Model and the MODELS table.                              *)
(*                                                                         *)
(* None is the empty tuple.  An entry of rpm_models is the tuple of the    *)
(* source: the polynomial text, then the lowest duty measured, the lowest  *)
(* spin-up duty and the RPM at full speed.  The polynomial text            *)
(* "-0.06309x^2 +48.64x -174.4" is held as the three decimal numerals the  *)
(* regular expression of speed_for_rpm captures, each as its digits        *)
(* (mantissa) and its number of decimals: -6309 with 5 decimals is         *)
(* -0.06309.                                                               *)
(***************************************************************************)
None == <<>>

Dec(mant, decimals) == [mant |-> mant, dec |-> decimals]

\* Model.__init__ with its default arguments
DefaultModel ==
    [profiles |-> <<"Lowest">>, fans |-> <<"Fan">>,
     fan_blades |-> None, rpm_models |-> None]

VivobookS15 ==
    [profiles |-> <<"Whisper", "Standard", "Performance", "Full speed">>,
     fans |-> <<"Left Fan", "Right Fan">>,
     fan_blades |-> <<97, 97>>,
     rpm_models |-> <<
        [a |-> Dec(-6309, 5), b |-> Dec(4864, 2), c |-> Dec(-1744, 1),
         first |-> 17, first_spin |-> 22, max_speed |-> 8340],
        [a |-> Dec(-7043, 5), b |-> Dec(5612, 2), c |-> Dec(-2255, 0),
         first |-> 55, first_spin |-> 59, max_speed |-> 8400] >>]

\* the MODELS table
MODELS == [name \in {"ASUS Vivobook S 15"} |-> VivobookS15]

\* The device models the program is tried on: the entries of MODELS and
\* "Model()", a Model built with the constructor's defaults (one fan, no
\* blade counts, no RPM models).
ModelNames == DOMAIN MODELS \cup {"Model()"}

ModelInfo(name) == IF name \in DOMAIN MODELS THEN MODELS[name] ELSE DefaultModel

(***************************************************************************)
(* The bus transport: I2c_msg, Request, Request.send.                      *)
(***************************************************************************)
EC_ADDR == 91
FAN_ADDR == 118
I2C_M_RD == 1

I2c_msg(addr, flags, len, buf) ==
    [addr |-> addr, flags |-> flags, len |-> len, buf |-> buf]

\* Request(addr).write(*data) and .read(buf): one message each
WriteMsg(addr, data) == I2c_msg(addr, 0, Len(data), data)
ReadMsg(addr, n) == I2c_msg(addr, I2C_M_RD, n, <<>>)

\* bytes(data) raises ValueError unless every value is in range(256)
ValidData(data) == \A i \in 1 .. Len(data) : data[i] \in 0 .. 255
ValidRequest(req) == \A i \in 1 .. Len(req) : ValidData(req[i].buf)

\* the bytes a read message is to deliver
ReadLen(req) == IF req[Len(req)].flags = I2C_M_RD THEN req[Len(req)].len ELSE 0

\* what the device may answer to a read of n bytes
ReadByte == {0, 255}
ReadData(n) == [1 .. n -> ReadByte]

\* one I2C_RDWR ioctl: the request, whether the ioctl succeeded and the
\* bytes it delivered
Tx(req, ok, data) == [req |-> req, ok |-> ok, data |-> data]

(***************************************************************************)
(* EC basic commands and EC control functions, each as the bus steps it    *)
(* runs in program order.  A step is one Request: "send" (no result        *)
(* used), "read" (the result is kept) or "poll" (the loop of ec_settle:    *)
(* repeated until the byte read is 0).                                     *)
(***************************************************************************)
StepOf(kind, req) == [k |-> kind, req |-> req]

ecrbReq(maj, min) ==
    <<WriteMsg(EC_ADDR, <<16, maj, min>>), WriteMsg(EC_ADDR, <<17>>),
      ReadMsg(EC_ADDR, 1)>>
ecwbReq(maj, min, value) ==
    <<WriteMsg(EC_ADDR, <<16, maj, min>>), WriteMsg(EC_ADDR, <<17, value>>)>>

ecrb(maj, min) == <<StepOf("read", ecrbReq(maj, min))>>
ecwb(maj, min, value) == <<StepOf("send", ecwbReq(maj, min, value))>>
ec_settle == <<StepOf("poll", ecrbReq(196, 48))>>

eccrMut(a1, a2) ==
    ec_settle \o ecwb(196, 49, a2) \o ecwb(196, 48, a1) \o ec_settle
      \o ecrb(196, 50)

eccr(a1, a2) ==
    ec_settle \o ecwb(196, 49, a2) \o ecwb(196, 48, a1) \o ec_settle
      \o ecrb(196, 50) \o ecwb(196, 50, 0)

eccwMut(a1, a2, val) ==
    ec_settle \o ecwb(196, 49, a2) \o ecwb(196, 48, a1)
      \o ecwb(196, 50, val) \o ec_settle

eccw(a1, a2, val) ==
    ec_settle \o ecwb(196, 49, a2) \o ecwb(196, 50, val)
      \o ecwb(196, 48, a1) \o ec_settle

FAN_MODE_AUTO == 0
FAN_MODE_MANUAL == 2
BACKLIGHT_SOLID == 1

get_fan_rpm(f) ==
    <<StepOf("read", <<WriteMsg(FAN_ADDR, <<34, f + 1>>), ReadMsg(FAN_ADDR, 3)>>)>>

set_fan_modeMut(mode) == eccw(1, 140, mode)
set_fan_mode(mode) == eccw(1, 130, mode)

set_fan_profile(profile) ==
    <<StepOf("send", <<WriteMsg(FAN_ADDR, <<36, profile>>)>>)>>

set_fan_speedMut(f, speed) == eccw(1, 138, speed) \o eccw(1, 140, f)
set_fan_speed(f, speed) == eccw(1, 140, f) \o eccw(1, 138, speed)

\* x / y rounded to the nearest integer, a tie to the even one (y > 0)
RoundDiv(x, y) ==
    LET q == x \div y
        r == x % y
    IN  IF 2 * r > y \/ (2 * r = y /\ q % 2 = 1) THEN q + 1 ELSE q

\* temp = min(max(round(temp * 10), 0), 2000), temp given in millidegrees
DeciCelsiusMut(t) == Max(RoundDiv(t, 100), 0)
DeciCelsius(t) == Min(Max(RoundDiv(t, 100), 0), 2000)

send_soc_temp(t) ==
    LET deci == DeciCelsius(t)
        lo == deci % 256
        hi == deci \div 256
    IN  <<StepOf("send", <<WriteMsg(FAN_ADDR, <<32, 1, 2, lo, hi>>)>>)>>

set_suspend_mode(mode) ==
    <<StepOf("send", <<WriteMsg(FAN_ADDR, <<35, mode>>)>>)>>

\* mode and period are the defaults BACKLIGHT_SOLID and 7, unk is 0x55
set_keyboard_backlight(r, g, b) ==
    <<StepOf("send", <<WriteMsg(FAN_ADDR,
        <<81, 7, 102, 0, 16, 0, 179, BACKLIGHT_SOLID, r, g, b, 85, 7,
          0, 0, 0, 0, 0, 0, 0, 0, 0>>)>>)>>

Call(fn, args) == [fn |-> fn, args |-> args]
NoCall == Call("none", <<>>)

Script(c) ==
    CASE c.fn = "ecrb" -> ecrb(c.args[1], c.args[2])
      [] c.fn = "ecwb" -> ecwb(c.args[1], c.args[2], c.args[3])
      [] c.fn = "ec_settle" -> ec_settle
      [] c.fn = "eccr" -> eccr(c.args[1], c.args[2])
      [] c.fn = "eccw" -> eccw(c.args[1], c.args[2], c.args[3])
      [] c.fn = "get_fan_rpm" -> get_fan_rpm(c.args[1])
      [] c.fn = "set_fan_mode" -> set_fan_mode(c.args[1])
      [] c.fn = "set_fan_profile" -> set_fan_profile(c.args[1])
      [] c.fn = "set_fan_speed" -> set_fan_speed(c.args[1], c.args[2])
      [] c.fn = "send_soc_temp" -> send_soc_temp(c.args[1])
      [] c.fn = "set_suspend_mode" -> set_suspend_mode(c.args[1])
      [] c.fn = "set_keyboard_backlight" ->
            set_keyboard_backlight(c.args[1], c.args[2], c.args[3])

\* the warnings printed before any bus traffic: an invalid fan id or profile
Warns(c, name) ==
    \/ c.fn \in {"get_fan_rpm", "set_fan_speed"}
         /\ c.args[1] >= Len(ModelInfo(name).fans)
    \/ c.fn = "set_fan_profile" /\ c.args[1] >= Len(ModelInfo(name).profiles)

\* what the call returns, from the buffer of its read
RetVal(c, buf) ==
    CASE c.fn \in {"ecrb", "eccr"} -> buf[1]
      [] c.fn = "get_fan_rpm" -> buf[2] + buf[3] * 256
      [] OTHER -> 0

(***************************************************************************)
(* Running an EC operation.                                                *)
(***************************************************************************)
ecIdle ==
    /\ ecCall = NoCall
    /\ todo = <<>>
    /\ bus = <<>>
    /\ res = <<>>
    /\ ecPc = "idle"
    /\ ecExc = ""
    /\ ecWarn = FALSE
    /\ polls = 0

\* entering the function c
Invoke(c) ==
    /\ ecCall' = c
    /\ todo' = Script(c)
    /\ bus' = <<>>
    /\ res' = <<>>
    /\ ecPc' = "running"
    /\ ecExc' = ""
    /\ ecWarn' = Warns(c, info)
    /\ polls' = 0

\* the step is done: on to the next statement, or return
Advance(rest) ==
    [pc |-> IF rest = <<>> THEN "returned" ELSE "running", todo |-> rest,
     exc |-> ""]

\* fcntl.ioctl raised OSError: nothing catches it, no statement of the
\* operation runs after it
PropagateMut(steps) == [pc |-> "running", todo |-> steps, exc |-> ""]
Propagate(steps) == [pc |-> "raised", todo |-> steps, exc |-> "OSError"]

\* ec_settle read a non-zero byte: time.sleep(0.05), then poll again
AgainMut(steps) == Advance(Tail(steps))
Again(steps) == [pc |-> "running", todo |-> steps, exc |-> ""]

Become(o) ==
    /\ ecPc' = o.pc
    /\ todo' = o.todo
    /\ ecExc' = o.exc

\* Request(...).write(...) with a value outside range(256): ValueError,
\* raised while the request is built, before anything is sent
ECBadRequest ==
    /\ ecPc = "running"
    /\ ~ValidRequest(Head(todo).req)
    /\ ecPc' = "raised"
    /\ ecExc' = "ValueError"
    /\ UNCHANGED <<ecCall, todo, bus, res, ecWarn, polls>>

\* Request(...).write(...).send()
ECSend ==
    /\ ecPc = "running"
    /\ Head(todo).k = "send"
    /\ ValidRequest(Head(todo).req)
    /\ \E ok \in BOOLEAN :
         /\ bus' = Append(bus, Tx(Head(todo).req, ok, <<>>))
         /\ Become(IF ok THEN Advance(Tail(todo)) ELSE Propagate(todo))
    /\ UNCHANGED <<ecCall, res, ecWarn, polls>>

\* Request(...).write(...).read(res).send(); res.array()
ECRead ==
    /\ ecPc = "running"
    /\ Head(todo).k = "read"
    /\ ValidRequest(Head(todo).req)
    /\ \/ /\ bus' = Append(bus, Tx(Head(todo).req, FALSE, <<>>))
          /\ Become(Propagate(todo))
          /\ UNCHANGED res
       \/ \E data \in ReadData(ReadLen(Head(todo).req)) :
            /\ bus' = Append(bus, Tx(Head(todo).req, TRUE, data))
            /\ Become(Advance(Tail(todo)))
            /\ res' = data
    /\ UNCHANGED <<ecCall, ecWarn, polls>>

\* one turn of the loop of ec_settle
ECPoll ==
    /\ ecPc = "running"
    /\ Head(todo).k = "poll"
    /\ \/ /\ bus' = Append(bus, Tx(Head(todo).req, FALSE, <<>>))
          /\ Become(Propagate(todo))
          /\ UNCHANGED polls
       \/ \E data \in ReadData(1) :
            /\ bus' = Append(bus, Tx(Head(todo).req, TRUE, data))
            /\ IF data[1] = 0
               THEN Become(Advance(Tail(todo))) /\ polls' = 0
               ELSE /\ polls < MaxPolls
                    /\ Become(Again(todo))
                    /\ polls' = polls + 1
    /\ UNCHANGED <<ecCall, res, ecWarn>>

\* the caller takes the result of the operation
ECDone ==
    /\ ecPc' = "idle"
    /\ UNCHANGED <<ecCall, todo, bus, res, ecExc, ecWarn, polls>>

(***************************************************************************)
(* The two loops: temperature_report_loop (tool.py) and kb_backlight_fire  *)
(* (effects.py).                                                           *)
(***************************************************************************)
\* len(THERMAL_ZONES)
NumZones == 4

TempStep == 5 * 500

\* what a thermal zone's temp file may read, in millidegrees
SensorVals ==
    {TempStep * i : i \in (0 - 1) .. MaxTempSteps} \cup {39100, 42300, 250000}

\* what a zone may read while temperature_report_loop runs
ReportVals == {0 - 5000, 39100, 42300, 42350, 45000, 250000}

loopIdle ==
    /\ prog = "none"
    /\ zones = 0
    /\ loopPc = "idle"
    /\ zi = 0
    /\ temp = 0
    /\ rgb = <<>>
    /\ cur = <<>>
    /\ loopExc = ""
    /\ failedAt = ""
    /\ readFailed = FALSE
    /\ readings = <<>>
    /\ lastSample = 0 - 1
    /\ runLen = 0
    /\ runWrites = 0
    /\ lastWritten = <<>>
    /\ rewrote = FALSE

histVars ==
    <<readFailed, readings, lastSample, runLen, runWrites, lastWritten, rewrote>>

\* the exception leaves the loop: nothing in either loop catches it
LoopRaise(e, where) ==
    /\ loopPc' = "raised"
    /\ loopExc' = e
    /\ failedAt' = where

\* if not len(zones): print("No zones"); return
AfterOpenMut(n) == "read"
AfterOpen(n) == IF n = 0 THEN "returned" ELSE "read"

\* zones = open_thermal_zones(zones); if not len(zones): return
\* (cur = [256, 256, 256] follows in kb_backlight_fire)
LoopOpenZones ==
    /\ loopPc = "start"
    /\ \/ \E n \in 0 .. NumZones :
            /\ zones' = n
            /\ loopPc' = AfterOpen(n)
            /\ zi' = 0
            /\ temp' = 0
            /\ cur' = IF prog = "fire" /\ n > 0 THEN <<256, 256, 256>> ELSE cur
            /\ UNCHANGED <<loopExc, failedAt>>
       \/ /\ LoopRaise("OSError", "open")
          /\ UNCHANGED <<zones, zi, temp, cur>>
    /\ UNCHANGED <<prog, rgb, histVars>>

\* after the last zone of the cycle: send_soc_temp(temp), or the mapping
AfterRead == IF prog = "temp-loop" THEN "report" ELSE "map"

\* a sensor read that fails: os.pread raises OSError, or int() raises
\* ValueError on what was read; neither loop has a try around it
SensorFailure(e) ==
    /\ LoopRaise(e, "sensor")
    /\ UNCHANGED <<temp, zi>>

\* temp = max(temp, int(os.pread(fd, 20, 0)) / 1000), for the next fd
LoopReadSensor ==
    /\ loopPc = "read"
    /\ zi < zones
    /\ \/ \E v \in (IF prog = "temp-loop" THEN ReportVals ELSE SensorVals) :
            /\ temp' = Max(temp, v)
            /\ zi' = zi + 1
            /\ loopPc' = IF zi + 1 = zones THEN AfterRead ELSE "read"
            /\ readings' = IF prog = "temp-loop" THEN Append(readings, v)
                           ELSE readings
            /\ UNCHANGED <<loopExc, failedAt, readFailed>>
       \/ \E e \in {"OSError", "ValueError"} :
            /\ SensorFailure(e)
            /\ readFailed' = TRUE
            /\ UNCHANGED readings
    /\ UNCHANGED <<prog, zones, rgb, cur, lastSample, runLen, runWrites,
                   lastWritten, rewrote>>

\* send_soc_temp(temp): entering it
LoopReport ==
    /\ loopPc = "report"
    /\ ecPc = "idle"
    /\ Invoke(Call("send_soc_temp", <<temp>>))
    /\ loopPc' = "sending"
    /\ UNCHANGED <<prog, zones, zi, temp, rgb, cur, loopExc, failedAt, histVars>>

\* send_soc_temp returned: time.sleep(period) is next
LoopReported ==
    /\ loopPc = "sending"
    /\ ecPc = "returned"
    /\ ECDone
    /\ loopPc' = "sleep"
    /\ UNCHANGED <<prog, zones, zi, temp, rgb, cur, loopExc, failedAt, histVars>>

\* the bus operation of the cycle raised
LoopBusError ==
    /\ loopPc \in {"sending", "writing"}
    /\ ecPc = "raised"
    /\ ECDone
    /\ LoopRaise(ecExc, "bus")
    /\ UNCHANGED <<prog, zones, zi, temp, rgb, cur, histVars>>

\* time.sleep(period); while True: temp = 0
LoopSleep ==
    /\ loopPc = "sleep"
    /\ loopPc' = "read"
    /\ zi' = 0
    /\ temp' = 0
    /\ readings' = <<>>
    /\ UNCHANGED <<prog, zones, rgb, cur, loopExc, failedAt, readFailed,
                   lastSample, runLen, runWrites, lastWritten, rewrote>>

\* min(max(x, 0), 30000): frac * temp_range * 1000
Ramp(t, from) == Min(Max(t - from, 0), 30000)

\* round(x / (120 * Limb)) for a two-limb x, a tie to the even one
RoundDiv120M(x) ==
    LET q == x.hi \div 120
        r == (x.hi % 120) * 1000000 + x.lo
    IN  IF r > 60000000 \/ (r = 60000000 /\ q % 2 = 1) THEN q + 1 ELSE q

\* 17 * n, in the two limbs RoundDiv120M takes (n < 2^31 / 17 * ..., here n <= 9 * 10^8)
Times17(n) ==
    LET nh == n \div 1000000
        nl == n % 1000000
    IN  [hi |-> 17 * nh + (17 * nl) \div 1000000, lo |-> (17 * nl) % 1000000]

\* g = frac * frac * 0.5; round(g * 255) = round(n * n * 17 / 120000000)
GreenMut(n) == RoundDiv(n * 17, 2000)
Green(n) == RoundDiv120M(Times17(n * n))

\* new = [round(r*255), round(g*255), round(b*255)] with min_temp = 40,
\* blue_temp = 55, temp_range = 30 and t in millidegrees
FireRGB(t) ==
    <<RoundDiv(Ramp(t, 40000) * 17, 2000),
      Green(Ramp(t, 40000)),
      RoundDiv(Ramp(t, 55000) * 17, 2000)>>

\* if new != cur
NeedsWriteMut(new, old) == TRUE
NeedsWrite(new, old) == new # old

\* frac .. new, then  if new != cur: tool.set_keyboard_backlight(*new)
LoopMap ==
    /\ loopPc = "map"
    /\ ecPc = "idle"
    /\ rgb' = FireRGB(temp)
    /\ lastSample' = temp
    /\ runLen' = IF temp = lastSample THEN Min(runLen + 1, RunCap) ELSE 1
    /\ IF NeedsWrite(FireRGB(temp), cur)
       THEN /\ Invoke(Call("set_keyboard_backlight", FireRGB(temp)))
            /\ loopPc' = "writing"
            /\ runWrites' = (IF temp = lastSample THEN runWrites ELSE 0) + 1
            /\ lastWritten' = FireRGB(temp)
            /\ rewrote' = (rewrote \/ FireRGB(temp) = lastWritten)
       ELSE /\ loopPc' = "sleep"
            /\ runWrites' = IF temp = lastSample THEN runWrites ELSE 0
            /\ UNCHANGED <<ecVars, lastWritten, rewrote>>
    /\ UNCHANGED <<prog, zones, zi, temp, cur, loopExc, failedAt, readFailed,
                   readings>>

\* set_keyboard_backlight returned: cur = new, then time.sleep(period)
LoopWritten ==
    /\ loopPc = "writing"
    /\ ecPc = "returned"
    /\ ECDone
    /\ cur' = rgb
    /\ loopPc' = "sleep"
    /\ UNCHANGED <<prog, zones, zi, temp, rgb, loopExc, failedAt, histVars>>

InitLoops ==
    /\ mainIdle
    /\ pairIdle
    /\ info \in DOMAIN MODELS
    /\ rpmIdle
    /\ ecIdle
    /\ calIdle
    /\ prog \in {"temp-loop", "fire"}
    /\ zones = 0
    /\ loopPc = "start"
    /\ zi = 0
    /\ temp = 0
    /\ rgb = <<>>
    /\ cur = <<>>
    /\ loopExc = ""
    /\ failedAt = ""
    /\ readFailed = FALSE
    /\ readings = <<>>
    /\ lastSample = 0 - 1
    /\ runLen = 0
    /\ runWrites = 0
    /\ lastWritten = <<>>
    /\ rewrote = FALSE

NextLoops ==
    \/ LoopOpenZones /\ UNCHANGED <<pairVars, mainVars, rpmVars, ecVars, calVars>>
    \/ LoopReadSensor /\ UNCHANGED <<pairVars, mainVars, rpmVars, ecVars, calVars>>
    \/ LoopReport /\ UNCHANGED <<pairVars, mainVars, rpmVars, calVars>>
    \/ ECSend /\ UNCHANGED <<pairVars, mainVars, rpmVars, loopVars, calVars>>
    \/ LoopReported /\ UNCHANGED <<pairVars, mainVars, rpmVars, calVars>>
    \/ LoopBusError /\ UNCHANGED <<pairVars, mainVars, rpmVars, calVars>>
    \/ LoopSleep /\ UNCHANGED <<pairVars, mainVars, rpmVars, ecVars, calVars>>
    \/ LoopMap /\ UNCHANGED <<pairVars, mainVars, rpmVars, calVars>>
    \/ LoopWritten /\ UNCHANGED <<pairVars, mainVars, rpmVars, calVars>>

SpecLoops == InitLoops /\ [][NextLoops]_vars

(***************************************************************************)
(* measure_fan_model, statement by statement.  Of the samples only what    *)
(* the control flow reads is kept: whether an rpm is non-zero, and per fan *)
(* the lowest duty of its non-zero samples (data[j][:, 0].min()).          *)
(***************************************************************************)
\* fan_ids = range(len(info.fans))
NumFans == Len(ModelInfo(info).fans)

\* the EC function called by the statement at pc
CalCallAt(pc) ==
    CASE pc = "manual" -> Call("set_fan_mode", <<FAN_MODE_MANUAL>>)
      [] pc = "spin" -> Call("set_fan_speed", <<cj, 255>>)
      [] pc \in {"max_read", "down_read", "up_read"} -> Call("get_fan_rpm", <<cj>>)
      [] pc \in {"down_set", "up_set"} -> Call("set_fan_speed", <<cj, ci>>)
      [] pc = "auto" -> Call("set_fan_mode", <<FAN_MODE_AUTO>>)

CalCalls == {"manual", "spin", "max_read", "down_set", "down_read",
             "up_set", "auto"}

\* for j in fan_ids: the next j at the same statement, or the statement
\* after the loop
NextFan(same, after) ==
    IF cj + 1 < NumFans
    THEN cj' = cj + 1 /\ calPc' = same
    ELSE cj' = 0 /\ calPc' = after

\* a statement of the routine calls an EC function
CalCall ==
    /\ calPc \in CalCalls
    /\ ~calWait
    /\ ecPc = "idle"
    /\ Invoke(CalCallAt(calPc))
    /\ calWait' = TRUE
    /\ autoIssued' = (autoIssued \/ calPc = "auto")
    /\ UNCHANGED <<calPc, step, ci, cj, firsts, first_spins, calExc, manualSet>>
    /\ UNCHANGED calHist

\* the EC function raised: no try in measure_fan_model, the routine is left
CalRaised ==
    /\ calWait
    /\ ecPc = "raised"
    /\ ECDone
    /\ calPc' = "raised"
    /\ calExc' = ecExc
    /\ calWait' = FALSE
    /\ UNCHANGED <<step, ci, cj, firsts, first_spins, manualSet, autoIssued>>
    /\ UNCHANGED calHist

\* set_fan_mode(FAN_MODE_MANUAL) returned
CalManualSet ==
    /\ calPc = "manual" /\ calWait /\ ecPc = "returned"
    /\ ECDone
    /\ calWait' = FALSE
    /\ manualSet' = TRUE
    /\ calPc' = "spin"
    /\ cj' = 0
    /\ UNCHANGED <<step, ci, firsts, first_spins, calExc, autoIssued>>
    /\ UNCHANGED calHist

\* for j in fan_ids: set_fan_speed(j, 255); then time.sleep(3)
CalSpunUp ==
    /\ calPc = "spin" /\ calWait /\ ecPc = "returned"
    /\ ECDone
    /\ calWait' = FALSE
    /\ NextFan("spin", "max_read")
    /\ UNCHANGED <<step, ci, firsts, first_spins, calExc, manualSet, autoIssued>>
    /\ UNCHANGED calHist

\* max_speeds = {j: get_fan_rpm(j) for j in fan_ids}; then data = {j: []}
\* and the first i of range(254, 0, -1 * step)
CalMaxRead ==
    /\ calPc = "max_read" /\ calWait /\ ecPc = "returned"
    /\ ECDone
    /\ calWait' = FALSE
    /\ NextFan("max_read", "down_set")
    /\ ci' = IF cj + 1 < NumFans THEN ci ELSE 254
    /\ UNCHANGED <<step, firsts, first_spins, calExc, manualSet, autoIssued>>
    /\ UNCHANGED calHist

\* for j in fan_ids: set_fan_speed(j, i); then time.sleep(0.5)
CalDownSet ==
    /\ calPc = "down_set" /\ calWait /\ ecPc = "returned"
    /\ ECDone
    /\ calWait' = FALSE
    /\ NextFan("down_set", "down_read")
    /\ UNCHANGED <<step, ci, firsts, first_spins, calExc, manualSet, autoIssued>>
    /\ UNCHANGED calHist

\* rpm = get_fan_rpm(j); data[j].append([i, rpm]); after the last j the
\* next i of range(254, 0, -1 * step), or the end of the downward sweep
CalDownRead ==
    /\ calPc = "down_read" /\ calWait /\ ecPc = "returned"
    /\ ECDone
    /\ calWait' = FALSE
    /\ firsts' = IF RetVal(ecCall, res) # 0
                 THEN [firsts EXCEPT ![cj + 1] = ci] ELSE firsts
    /\ IF cj + 1 < NumFans
       THEN cj' = cj + 1 /\ calPc' = "down_read" /\ ci' = ci
       ELSE /\ cj' = 0
            /\ IF ci - step > 0
               THEN ci' = ci - step /\ calPc' = "down_set"
               ELSE ci' = ci /\ calPc' = "filter"
    /\ UNCHANGED <<step, first_spins, calExc, manualSet, autoIssued>>
    /\ UNCHANGED calHist

\* the lowest of firsts.values()
MinFirst == CHOOSE d \in {firsts[j] : j \in 1 .. NumFans} :
                \A j \in 1 .. NumFans : d <= firsts[j]

\* data = {j: np.array([x for x in data[j] if x[1]])}, the test of
\* len(data) (the dict, never empty), firsts = {j: data[j][:, 0].min()}:
\* IndexError for a fan whose array is empty (one-dimensional);
\* first_spins = {j: 255}; the first i of range(min(firsts.values()), 255, step)
CalFilter ==
    /\ calPc = "filter"
    /\ IF \E j \in 1 .. NumFans : firsts[j] = 0
       THEN /\ calPc' = "raised"
            /\ calExc' = "IndexError"
            /\ UNCHANGED <<ci, first_spins>>
       ELSE /\ first_spins' = [j \in 1 .. NumFans |-> 255]
            /\ ci' = MinFirst
            /\ calPc' = "up_set"
            /\ calExc' = calExc
    /\ UNCHANGED <<calWait, step, cj, firsts, manualSet, autoIssued>>
    /\ UNCHANGED calHist

\* for j in fan_ids: set_fan_speed(j, i); then time.sleep(0.5)
CalUpSet ==
    /\ calPc = "up_set" /\ calWait /\ ecPc = "returned"
    /\ ECDone
    /\ calWait' = FALSE
    /\ NextFan("up_set", "up_read")
    /\ UNCHANGED <<step, ci, firsts, first_spins, calExc, manualSet, autoIssued>>
    /\ upLog' = IF cj = 0 THEN Append(upLog, ci) ELSE upLog
    /\ UNCHANGED <<upReads, spinWrites>>

\* after the last j of the upward sweep's second loop:
\* if 255 not in first_spins.values(): break; else the next i of the range
AfterUpReadMut(spins) ==
    IF cj + 1 < NumFans
    THEN cj' = cj + 1 /\ calPc' = "up_read" /\ ci' = ci
    ELSE /\ cj' = 0
         /\ IF ci + step >= 255
            THEN ci' = ci /\ calPc' = "fit"
            ELSE ci' = ci + step /\ calPc' = "up_set"

AfterUpRead(spins) ==
    IF cj + 1 < NumFans
    THEN cj' = cj + 1 /\ calPc' = "up_read" /\ ci' = ci
    ELSE /\ cj' = 0
         /\ IF (\A j \in 1 .. NumFans : spins[j] # 255) \/ ci + step >= 255
            THEN ci' = ci /\ calPc' = "fit"
            ELSE ci' = ci + step /\ calPc' = "up_set"

\* if first_spins[j] == 255 and get_fan_rpm(j): the call is made only for
\* a fan still at 255
CalUpCall ==
    /\ calPc = "up_read"
    /\ ~calWait
    /\ ecPc = "idle"
    /\ IF first_spins[cj + 1] = 255
       THEN /\ Invoke(CalCallAt(calPc))
            /\ calWait' = TRUE
            /\ UNCHANGED <<calPc, ci, cj>>
       ELSE /\ AfterUpRead(first_spins)
            /\ UNCHANGED <<ecVars, calWait>>
    /\ UNCHANGED <<step, firsts, first_spins, calExc, manualSet, autoIssued>>
    /\ UNCHANGED calHist

\* ... and get_fan_rpm(j): first_spins[j] = i
CalUpRead ==
    /\ calPc = "up_read" /\ calWait /\ ecPc = "returned"
    /\ ECDone
    /\ calWait' = FALSE
    /\ LET spins == IF RetVal(ecCall, res) # 0
                    THEN [first_spins EXCEPT ![cj + 1] = ci] ELSE first_spins
       IN  first_spins' = spins /\ AfterUpRead(spins)
    /\ UNCHANGED <<step, firsts, calExc, manualSet, autoIssued>>
    /\ upReads' = [upReads EXCEPT
                     ![cj + 1] = Append(@, <<ci, RetVal(ecCall, res) # 0>>)]
    /\ spinWrites' = IF RetVal(ecCall, res) # 0
                     THEN [spinWrites EXCEPT ![cj + 1] = @ + 1]
                     ELSE spinWrites
    /\ UNCHANGED upLog

\* for j in fan_ids: np.polyfit(...) and the prints
CalFit ==
    /\ calPc = "fit"
    /\ calPc' = "auto"
    /\ UNCHANGED <<calWait, step, ci, cj, firsts, first_spins, calExc,
                   manualSet, autoIssued>>
    /\ UNCHANGED calHist

\* set_fan_mode(FAN_MODE_AUTO) returned: the routine returns
CalAutoSet ==
    /\ calPc = "auto" /\ calWait /\ ecPc = "returned"
    /\ ECDone
    /\ calWait' = FALSE
    /\ calPc' = "done"
    /\ UNCHANGED <<step, ci, cj, firsts, first_spins, calExc, manualSet,
                   autoIssued>>
    /\ UNCHANGED calHist

InitCalib ==
    /\ mainIdle
    /\ pairIdle
    /\ info \in DOMAIN MODELS
    /\ rpmIdle
    /\ ecIdle
    /\ loopIdle
    /\ calPc = "manual"
    /\ calWait = FALSE
    /\ step = CalStep
    /\ ci = 0
    /\ cj = 0
    /\ firsts = [j \in 1 .. NumFans |-> 0]
    /\ first_spins = [j \in 1 .. NumFans |-> 0]
    /\ calExc = ""
    /\ manualSet = FALSE
    /\ autoIssued = FALSE
    /\ upLog = <<>>
    /\ upReads = [j \in 1 .. NumFans |-> <<>>]
    /\ spinWrites = [j \in 1 .. NumFans |-> 0]

NextCalib ==
    \/ CalCall /\ UNCHANGED <<pairVars, mainVars, rpmVars, loopVars>>
    \/ CalRaised /\ UNCHANGED <<pairVars, mainVars, rpmVars, loopVars>>
    \/ CalManualSet /\ UNCHANGED <<pairVars, mainVars, rpmVars, loopVars>>
    \/ CalSpunUp /\ UNCHANGED <<pairVars, mainVars, rpmVars, loopVars>>
    \/ CalMaxRead /\ UNCHANGED <<pairVars, mainVars, rpmVars, loopVars>>
    \/ CalDownSet /\ UNCHANGED <<pairVars, mainVars, rpmVars, loopVars>>
    \/ CalDownRead /\ UNCHANGED <<pairVars, mainVars, rpmVars, loopVars>>
    \/ CalFilter /\ UNCHANGED <<pairVars, mainVars, rpmVars, loopVars, ecVars>>
    \/ CalUpSet /\ UNCHANGED <<pairVars, mainVars, rpmVars, loopVars>>
    \/ CalUpCall /\ UNCHANGED <<pairVars, mainVars, rpmVars, loopVars>>
    \/ CalUpRead /\ UNCHANGED <<pairVars, mainVars, rpmVars, loopVars>>
    \/ CalFit /\ UNCHANGED <<pairVars, mainVars, rpmVars, loopVars, ecVars>>
    \/ CalAutoSet /\ UNCHANGED <<pairVars, mainVars, rpmVars, loopVars>>
    \/ ECSend /\ UNCHANGED <<pairVars, mainVars, rpmVars, loopVars, calVars>>
    \/ ECRead /\ UNCHANGED <<pairVars, mainVars, rpmVars, loopVars, calVars>>
    \/ ECPoll /\ UNCHANGED <<pairVars, mainVars, rpmVars, loopVars, calVars>>

SpecCalib == InitCalib /\ [][NextCalib]_vars

(***************************************************************************)
(* Exact arithmetic for speed_for_rpm.                                     *)
(*                                                                         *)
(* Every quantity is held as an integer: a coefficient or an rpm times     *)
(* RpmScale = 10^5 (the table's coefficients have at most five decimals),  *)
(* the discriminant times RpmScale^2.  The latter exceeds 2^31 and is held *)
(* in two limbs, hi * Limb + lo with 0 <= lo < Limb.                       *)
(***************************************************************************)
RpmScale == 100 * 1000
RpmDecimals == 2 + 3
Limb == 1000 * 1000

Big(hi, lo) == [hi |-> hi + lo \div Limb, lo |-> lo % Limb]

\* k * y for 0 <= k < 10^5 and 0 <= y < 2^31
MulBig(k, y) ==
    LET yh == y \div Limb
        ym == (y % Limb) \div 1000
        yl == y % 1000
    IN  Big(k * yh + (k * ym) \div 1000, ((k * ym) % 1000) * 1000 + k * yl)

\* x * x for 0 <= x < 2 * 10^7
SquareBig(x) ==
    LET xh == x \div 1000
        xl == x % 1000
        cross == 2 * xh * xl
    IN  Big(xh * xh + cross \div 1000, (cross % 1000) * 1000 + xl * xl)

AddBig(x, y) == Big(x.hi + y.hi, x.lo + y.lo)

\* x - y for x >= y
SubBig(x, y) ==
    IF x.lo >= y.lo
    THEN [hi |-> x.hi - y.hi, lo |-> x.lo - y.lo]
    ELSE [hi |-> x.hi - y.hi - 1, lo |-> x.lo + Limb - y.lo]

LeqBig(x, y) == x.hi < y.hi \/ (x.hi = y.hi /\ x.lo <= y.lo)

(***************************************************************************)
(* speed_for_rpm, line by line.                                            *)
(***************************************************************************)
\* a, b, c = [float(m.group(i)) for i in (1, 2, 3)], each times RpmScale
Coef(d) == d.mant * Pow10(RpmDecimals - d.dec)

\* the polynomial the model text stands for, rpm = a*x^2 + b*x + c (the
\* fit of measure_fan_model, highest power first), times RpmScale
RpmForDuty(m, x) == Coef(m.a) * x * x + Coef(m.b) * x + Coef(m.c)

\* (c - rpm), negated: rpm - c
RpmMinusCMut(m, r) == r + Coef(m.c)
RpmMinusC(m, r) == r - Coef(m.c)

\* b*b - 4*a*(c - rpm) for a < 0, times RpmScale^2, as sign and magnitude
Discriminant(m, r) ==
    LET bb == SquareBig(Coef(m.b))
        k  == (0 - 4) * Coef(m.a)
        y  == RpmMinusC(m, r)
        ac == MulBig(k, IF y >= 0 THEN y ELSE 0 - y)
    IN  IF y < 0 THEN [neg |-> FALSE, mag |-> AddBig(bb, ac)]
        ELSE IF LeqBig(ac, bb) THEN [neg |-> FALSE, mag |-> SubBig(bb, ac)]
        ELSE [neg |-> TRUE, mag |-> SubBig(ac, bb)]

\* math.sqrt raises ValueError exactly on a negative argument
SqrtRaises(disc) == disc.neg

\* except ValueError: val = 256
ExceptValMut == 0 - 1
ExceptVal == 256

\* For val = (-b + sqrt(disc)) / (2*a) with a < 0 and disc >= 0, and h an
\* integer:   val >= h/2  <=>  sqrt(disc) <= b + a*h
\*                        <=>  b + a*h >= 0  /\  disc <= (b + a*h)^2
RootLin(m, h) == Coef(m.b) + Coef(m.a) * h

RootGeq(m, disc, h) ==
    /\ RootLin(m, h) >= 0
    /\ LeqBig(disc.mag, SquareBig(RootLin(m, h)))

RootEq(m, disc, h) ==
    /\ RootLin(m, h) >= 0
    /\ disc.mag = SquareBig(RootLin(m, h))

\* the largest n in lo..hi with val >= n - 1/2 (it holds of lo)
RECURSIVE RoundUp(_, _, _, _)
RoundUp(m, disc, lo, hi) ==
    IF lo >= hi THEN lo
    ELSE LET mid == (lo + hi + 1) \div 2
         IN  IF RootGeq(m, disc, 2 * mid - 1)
             THEN RoundUp(m, disc, mid, hi)
             ELSE RoundUp(m, disc, lo, mid - 1)

\* round(val): to the nearest integer, a tie to the even one
RoundRoot(m, disc) ==
    LET n == RoundUp(m, disc, 0 - RoundSpan, RoundSpan)
    IN  IF RootEq(m, disc, 2 * n - 1) /\ n % 2 = 1 THEN n - 1 ELSE n

\* round(val), val being the root or the value of the except branch
RoundVal(m, disc) ==
    IF SqrtRaises(disc) THEN ExceptVal ELSE RoundRoot(m, disc)

\* val < model[1] or val > 254
OutOfDomain(m, disc) ==
    IF SqrtRaises(disc) THEN ExceptVal < m.first \/ ExceptVal > 254
    ELSE \/ ~RootGeq(m, disc, 2 * m.first)
         \/ (RootGeq(m, disc, 2 * 254) /\ ~RootEq(m, disc, 2 * 254))

\* min(max(round(val), 0), 255)
ClampDutyMut(v) == Max(v, 0)
ClampDuty(v) == Min(Max(v, 0), 255)

\* if rpm == 0
IsZeroRpmMut(r) == FALSE
IsZeroRpm(r) == r = 0

Returned(v, rnd, w) ==
    [pc |-> "returned", ret |-> v, exc |-> "", rounded |-> rnd, warned |-> w]
Raised(e) ==
    [pc |-> "raised", ret |-> 0, exc |-> e, rounded |-> 0, warned |-> FALSE]

speed_for_rpm(name, f, r) ==
    LET inf == ModelInfo(name)
    IN  IF inf.rpm_models = None
          THEN Raised("RuntimeError: No fan RPM model defined")
        ELSE IF f + 1 > Len(inf.rpm_models)
          THEN Raised("IndexError")
        ELSE IF IsZeroRpm(r)
          THEN Returned(0, 0, FALSE)
        ELSE LET m == inf.rpm_models[f + 1]
             IN  IF Coef(m.a) >= 0
                   THEN Raised("RuntimeError: Convex model unimplemented")
                 ELSE LET disc == Discriminant(m, r)
                          rnd  == RoundVal(m, disc)
                      IN  Returned(ClampDuty(rnd), rnd, OutOfDomain(m, disc))

(***************************************************************************)
(* SpecRpm: speed_for_rpm called once on each input.                       *)
(***************************************************************************)
\* the duties of an RPM model's domain: model[1] .. 254
Domain(m) == m.first .. 254

\* the RPM models of the table
RpmModels ==
    UNION {{ModelInfo(n).rpm_models[i] : i \in 1 .. Len(ModelInfo(n).rpm_models)} :
             n \in ModelNames}

\* the inputs: every whole rpm of the range (main passes int(args[1])),
\* and the polynomial's value at every duty of each model's domain
RpmInputs ==
    {r * RpmScale : r \in (0 - MaxNegRpm) .. MaxRpm}
      \cup UNION {{RpmForDuty(m, x) : x \in Domain(m)} : m \in RpmModels}

InitRpm ==
    /\ mainIdle
    /\ pairIdle
    /\ info \in ModelNames
    /\ fan_id \in 0 .. MaxFanId
    /\ rpm \in RpmInputs
    /\ rpmPc = "call"
    /\ ret = 0
    /\ exc = ""
    /\ rounded = 0
    /\ warned = FALSE
    /\ ecIdle
    /\ loopIdle
    /\ calIdle

CallSpeedForRpm ==
    /\ rpmPc = "call"
    /\ LET out == speed_for_rpm(info, fan_id, rpm)
       IN  /\ rpmPc' = out.pc
           /\ ret' = out.ret
           /\ exc' = out.exc
           /\ rounded' = out.rounded
           /\ warned' = out.warned
    /\ UNCHANGED <<info, fan_id, rpm>>
    /\ UNCHANGED <<ecVars, loopVars, calVars, mainVars, pairVars>>

NextRpm == CallSpeedForRpm

SpecRpm == InitRpm /\ [][NextRpm]_vars

(***************************************************************************)
(* Properties of speed_for_rpm (SpecRpm).                                  *)
(***************************************************************************)
\* the fan has an RPM model: info.rpm_models is not None and holds fan_id
HasRpmModel(name, f) ==
    /\ ModelInfo(name).rpm_models # None
    /\ f + 1 <= Len(ModelInfo(name).rpm_models)

TheModel == ModelInfo(info).rpm_models[fan_id + 1]

Called == rpmPc # "call"

\* C5: for every fan that has an RPM model and every rpm >= 0,
\* speed_for_rpm returns, and what it returns is an integer in 0 .. 255.
Thm_C5_DutyInRange ==
    (Called /\ HasRpmModel(info, fan_id) /\ rpm >= 0)
        => (rpmPc = "returned" /\ ret \in 0 .. 255)

\* C5 witness: a target whose root lies above 255 came back clamped to 255
Wit_C5_Clamped ==
    /\ rpmPc = "returned"
    /\ rpm > 0
    /\ ~Discriminant(TheModel, rpm).neg
    /\ rounded > 255
    /\ ret = 255

\* C6 as stated: with a negative discriminant speed_for_rpm returns 256.
Orig_C6_Returns256 ==
    (rpmPc = "returned" /\ HasRpmModel(info, fan_id) /\ rpm # 0
       /\ Discriminant(TheModel, rpm).neg)
        => ret = 256

\* C6 as amended: with a negative discriminant the solved value is the
\* sentinel 256 (no NaN, no negative value), and speed_for_rpm returns it
\* clamped, that is 255.
Thm_C6_SentinelClamped ==
    (Called /\ HasRpmModel(info, fan_id) /\ rpm # 0
       /\ Discriminant(TheModel, rpm).neg)
        => (rpmPc = "returned" /\ rounded = 256 /\ ret = 255 /\ warned)

\* C6 witness: a target above the model's peak was answered
Wit_C6_NegativeDisc ==
    /\ rpmPc = "returned"
    /\ HasRpmModel(info, fan_id)
    /\ rpm > 0
    /\ Discriminant(TheModel, rpm).neg
    /\ ret = 255

\* C7: for each RPM model (a < 0) and each duty x of its domain,
\* speed_for_rpm of the polynomial's value at x is x, to within 1.
Thm_C7_RoundTrip ==
    (Called /\ HasRpmModel(info, fan_id))
        => \A x \in Domain(TheModel) :
             rpm = RpmForDuty(TheModel, x)
               => (rpmPc = "returned" /\ ret - x \in {0 - 1, 0, 1})

\* C7 witness: the round trip of the second fan's highest duty
Wit_C7_RoundTrip ==
    /\ rpmPc = "returned"
    /\ info = "ASUS Vivobook S 15"
    /\ fan_id = 1
    /\ rpm = RpmForDuty(VivobookS15.rpm_models[2], 254)
    /\ ret = 254

\* C8 as stated: speed_for_rpm(fan_id, 0) returns 0 for every fan index and
\* every device model (taken over the fans the device model has).
Orig_C8_ZeroAlways ==
    (Called /\ rpm = 0 /\ fan_id < Len(ModelInfo(info).fans))
        => (rpmPc = "returned" /\ ret = 0)

\* C8 as amended: speed_for_rpm(fan_id, 0) returns 0 for every fan that has
\* an RPM model; for a fan without one it raises, also when rpm is 0.
Thm_C8_ZeroWithModel ==
    (Called /\ rpm = 0)
        => IF HasRpmModel(info, fan_id)
           THEN rpmPc = "returned" /\ ret = 0 /\ ~warned
           ELSE rpmPc = "raised"

\* C8 witness: rpm 0 answered with 0 for a fan that has a model
Wit_C8_Zero ==
    /\ rpmPc = "returned"
    /\ HasRpmModel(info, fan_id)
    /\ rpm = 0
    /\ ret = 0

(***************************************************************************)
(* The process: init() and main(sys.argv[1:]) of tool.py.  The runs of     *)
(* temperature_report_loop and measure_fan_model are SpecLoops and         *)
(* SpecCalib; here only that they end, by returning or by an exception.    *)
(***************************************************************************)
\* info = None
NoInfo == "None"

rpmLocals == <<fan_id, rpm, rpmPc, ret, exc, rounded, warned>>

\* the command lines the process is run with
CmdLines ==
    {<<>>, <<"get-speed">>, <<"set-speed">>, <<"set-speed", "3000">>,
     <<"set-speed", "fast">>, <<"mode">>, <<"mode", "auto">>,
     <<"mode", "manual">>, <<"mode", "quiet">>, <<"profile", "1">>,
     <<"profile", "256">>, <<"temp-loop">>, <<"suspend", "1">>,
     <<"measure-rpm">>, <<"kb", "#fff">>, <<"kb", "102030">>,
     <<"kb", "red">>, <<"frobnicate">>}

\* int(s): the strings it accepts here, ValueError for any other
IntArgs == {"0", "1", "256", "3000"}
IntOf(t) ==
    CASE t = "0" -> 0 [] t = "1" -> 1 [] t = "256" -> 256 [] t = "3000" -> 3000

\* kb: the colours matching [0-9a-fA-F]{3} (fac = 17) or [0-9a-fA-F]{6}
Colours == {"#fff", "102030"}
ColourOf(t) ==
    CASE t = "#fff" -> <<255, 255, 255>> [] t = "102030" -> <<16, 32, 48>>

\* what the next statement of the command does: an EC function is called,
\* an exception leaves main, main returns 1, or a long run is entered
Do(k, c, e) == [k |-> k, c |-> c, e |-> e]
DoCall(c) == Do("call", c, "")
DoRaise(e) == Do("raise", NoCall, e)
DoReturn == Do("return", NoCall, "")
DoLong == Do("long", NoCall, "")

\* the command with an argument: IndexError without args[1]
WithArg(d) == IF Len(argv) < 2 THEN DoRaise("IndexError") ELSE d

\* the command with an integer argument: ValueError from int(args[1])
WithInt(d) ==
    WithArg(IF Len(argv) >= 2 /\ argv[2] \in IntArgs THEN d
            ELSE DoRaise("ValueError"))

\* one call, then return 1
Once(i, c) == IF i = 0 THEN DoCall(c) ELSE DoReturn

\* the if / elif chain of main, i fans or calls being done
Command(i) ==
    LET cmd == argv[1]
        inf == ModelInfo(info)
    IN  CASE cmd = "get-speed" ->
               IF i < Len(inf.fans) THEN DoCall(Call("get_fan_rpm", <<i>>))
               ELSE DoReturn
          [] cmd = "set-speed" ->
               WithInt(
                 IF i >= Len(inf.fans) THEN DoReturn
                 ELSE IF inf.rpm_models # None
                   THEN LET d == speed_for_rpm(info, i, IntOf(argv[2]))
                        IN  IF d.pc = "raised" THEN DoRaise(d.exc)
                            ELSE DoCall(Call("set_fan_speed", <<i, d.ret>>))
                 ELSE DoCall(Call("set_fan_speed", <<i, IntOf(argv[2])>>)))
          [] cmd = "mode" ->
               WithArg(
                 IF Len(argv) >= 2 /\ argv[2] = "auto"
                   THEN Once(i, Call("set_fan_mode", <<FAN_MODE_AUTO>>))
                 ELSE IF Len(argv) >= 2 /\ argv[2] = "manual"
                   THEN Once(i, Call("set_fan_mode", <<FAN_MODE_MANUAL>>))
                 ELSE DoReturn)
          [] cmd = "profile" ->
               WithInt(Once(i, Call("set_fan_profile", <<IntOf(argv[2])>>)))
          [] cmd = "temp-loop" -> DoLong
          [] cmd = "suspend" ->
               WithInt(Once(i, Call("set_suspend_mode", <<IntOf(argv[2])>>)))
          [] cmd = "measure-rpm" -> DoLong
          [] cmd = "kb" ->
               WithArg(
                 IF Len(argv) >= 2 /\ argv[2] \in Colours
                   THEN Once(i, Call("set_keyboard_backlight", ColourOf(argv[2])))
                 ELSE DoReturn)
          [] OTHER -> DoReturn

\* sys.exit(n), exit(n), or an uncaught exception (status 1)
Exit(n) ==
    /\ mainPc' = "exited"
    /\ status' = n

\* init(): get_model_info() (None for a model not in MODELS), open_i2c
\* (exit(1) unless one i2c-* device, RuntimeError or OSError when it cannot
\* be opened), the two I2C_SLAVE ioctls (OSError when a driver owns them)
MainInit ==
    /\ mainPc = "init"
    /\ info' = IF model \in DOMAIN MODELS THEN model ELSE NoInfo
    /\ IF fault = "none"
       THEN mainPc' = "main" /\ status' = status
       ELSE Exit(1)
    /\ UNCHANGED <<model, fault, argv, mi, rpmLocals>>

\* if not len(args): usage(); return 0
MainNoArgs ==
    /\ mainPc = "main"
    /\ argv = <<>>
    /\ Exit(0)
    /\ UNCHANGED <<model, fault, argv, mi, rpmVars>>

\* if info is None or i2c_fd is None: sys.exit(1)
MainNoInfo ==
    /\ mainPc = "main"
    /\ argv # <<>>
    /\ info = NoInfo
    /\ Exit(1)
    /\ UNCHANGED <<model, fault, argv, mi, rpmVars>>

\* the command's next statement; return 1 at the end of main
MainCommand ==
    /\ mainPc = "main"
    /\ argv # <<>>
    /\ info # NoInfo
    /\ ecPc = "idle"
    /\ LET d == Command(mi)
       IN  CASE d.k = "call" ->
                  /\ Invoke(d.c)
                  /\ mainPc' = "call"
                  /\ status' = status
             [] d.k = "long" ->
                  /\ mainPc' = "long"
                  /\ status' = status
                  /\ UNCHANGED ecVars
             [] OTHER ->
                  /\ Exit(1)
                  /\ UNCHANGED ecVars
    /\ UNCHANGED <<model, fault, argv, mi, rpmVars>>

\* the EC function returned: the next fan, or the end of the command
MainCallDone ==
    /\ mainPc = "call"
    /\ ecPc = "returned"
    /\ ECDone
    /\ mi' = mi + 1
    /\ mainPc' = "main"
    /\ UNCHANGED <<model, fault, argv, status, rpmVars>>

\* the EC function raised: nothing in main catches it
MainCallRaised ==
    /\ mainPc = "call"
    /\ ecPc = "raised"
    /\ ECDone
    /\ Exit(1)
    /\ UNCHANGED <<model, fault, argv, mi, rpmVars>>

\* temperature_report_loop or measure_fan_model ended: it returned (main
\* returns 1) or raised
MainLongEnds ==
    /\ mainPc = "long"
    /\ Exit(1)
    /\ UNCHANGED <<model, fault, argv, mi, rpmVars, ecVars>>

InitMain ==
    /\ pairIdle
    /\ info = NoInfo
    /\ rpmIdle
    /\ ecIdle
    /\ loopIdle
    /\ calIdle
    /\ model \in DOMAIN MODELS \cup {"Some Other Laptop"}
    /\ fault \in {"none", "nodev", "noopen", "owned"}
    /\ argv \in CmdLines
    /\ mainPc = "init"
    /\ mi = 0
    /\ status = 0 - 1

NextMain ==
    \/ MainInit /\ UNCHANGED <<ecVars, loopVars, calVars, pairVars>>
    \/ MainNoArgs /\ UNCHANGED <<ecVars, loopVars, calVars, pairVars>>
    \/ MainNoInfo /\ UNCHANGED <<ecVars, loopVars, calVars, pairVars>>
    \/ MainCommand /\ UNCHANGED <<loopVars, calVars, pairVars>>
    \/ MainCallDone /\ UNCHANGED <<loopVars, calVars, pairVars>>
    \/ MainCallRaised /\ UNCHANGED <<loopVars, calVars, pairVars>>
    \/ MainLongEnds /\ UNCHANGED <<loopVars, calVars, pairVars>>
    \/ ECBadRequest /\ UNCHANGED <<pairVars, mainVars, rpmVars, loopVars, calVars>>
    \/ ECSend /\ UNCHANGED <<pairVars, mainVars, rpmVars, loopVars, calVars>>
    \/ ECRead /\ UNCHANGED <<pairVars, mainVars, rpmVars, loopVars, calVars>>
    \/ ECPoll /\ UNCHANGED <<pairVars, mainVars, rpmVars, loopVars, calVars>>

SpecMain == InitMain /\ [][NextMain]_vars

(***************************************************************************)
(* Two callers of eccr / eccw on the same bus.  The adapter runs each      *)
(* I2C_RDWR ioctl as a whole, so they interleave transaction by            *)
(* transaction; within one thread the second call starts when the first    *)
(* has ended.  The EC keeps what was last written to 0x31 and 0x32.        *)
(***************************************************************************)
PairCalls ==
    {Call("eccw", <<1, 140, 1>>), Call("eccw", <<1, 130, 2>>),
     Call("eccr", <<1, 138>>)}

Proc(c) == [c |-> c, todo |-> Script(c), pc |-> "running", polls |-> 0]

\* caller p may send its next transaction
CanRunMut(p) == procs[p].pc = "running"
CanRun(p) ==
    /\ procs[p].pc = "running"
    /\ serial => \A q \in 1 .. p - 1 : procs[q].pc # "running"

\* the request of ecwb: the register it writes and the value
IsRegWrite(req) ==
    /\ Len(req) = 2
    /\ req[1].buf = <<16, 196, req[1].buf[3]>>
    /\ req[2].buf = <<17, req[2].buf[2]>>
RegOf(req) == req[1].buf[3]
ValOf(req) == req[2].buf[2]

\* the request of caller p went through: what it leaves in the EC
Written(p, req) ==
    /\ regs' = IF IsRegWrite(req) /\ RegOf(req) \in DOMAIN regs
               THEN [regs EXCEPT ![RegOf(req)] = ValOf(req)] ELSE regs
    /\ cmdLog' = IF IsRegWrite(req) /\ RegOf(req) = 48
                 THEN Append(cmdLog, [op |-> p, sel |-> regs[49],
                                      val |-> regs[50]])
                 ELSE cmdLog

\* caller p goes on as the outcome o of its step says
Goes(p, o, n) ==
    procs' = [procs EXCEPT ![p] = [c |-> @.c, todo |-> o.todo, pc |-> o.pc,
                                   polls |-> n]]

\* ecwb of caller p
PairSend(p) ==
    /\ CanRun(p)
    /\ Head(procs[p].todo).k = "send"
    /\ \/ /\ Goes(p, Advance(Tail(procs[p].todo)), 0)
          /\ Written(p, Head(procs[p].todo).req)
       \/ /\ Goes(p, Propagate(procs[p].todo), 0)
          /\ UNCHANGED <<regs, cmdLog>>
    /\ UNCHANGED serial

\* ecrb of caller p
PairRead(p) ==
    /\ CanRun(p)
    /\ Head(procs[p].todo).k = "read"
    /\ \/ Goes(p, Advance(Tail(procs[p].todo)), 0)
       \/ Goes(p, Propagate(procs[p].todo), 0)
    /\ UNCHANGED <<serial, regs, cmdLog>>

\* one turn of ec_settle of caller p
PairPoll(p) ==
    /\ CanRun(p)
    /\ Head(procs[p].todo).k = "poll"
    /\ \/ Goes(p, Propagate(procs[p].todo), 0)
       \/ \E b \in ReadByte :
            IF b = 0
            THEN Goes(p, Advance(Tail(procs[p].todo)), 0)
            ELSE /\ procs[p].polls < MaxPolls
                 /\ Goes(p, Again(procs[p].todo), procs[p].polls + 1)
    /\ UNCHANGED <<serial, regs, cmdLog>>

InitPair ==
    /\ info \in DOMAIN MODELS
    /\ rpmIdle
    /\ ecIdle
    /\ loopIdle
    /\ calIdle
    /\ mainIdle
    /\ procs \in [1 .. 2 -> {Proc(c) : c \in PairCalls}]
    /\ serial \in BOOLEAN
    /\ regs = [r \in {49, 50} |-> 0]
    /\ cmdLog = <<>>

NextPair ==
    \/ \E p \in 1 .. 2 :
         PairSend(p) /\ UNCHANGED <<rpmVars, ecVars, loopVars, calVars, mainVars>>
    \/ \E p \in 1 .. 2 :
         PairRead(p) /\ UNCHANGED <<rpmVars, ecVars, loopVars, calVars, mainVars>>
    \/ \E p \in 1 .. 2 :
         PairPoll(p) /\ UNCHANGED <<rpmVars, ecVars, loopVars, calVars, mainVars>>

SpecPair == InitPair /\ [][NextPair]_vars

(***************************************************************************)
(* SpecEC: one EC operation, called once, on a device that answers any     *)
(* byte and on a bus whose every transaction may fail.                     *)
(***************************************************************************)
\* temperatures in millidegrees Celsius, as the thermal zones give them
Temps == {0 - 5000, 0, 39100, 42300, 42350, 45000, 250000}

ECCalls ==
    {Call("ecrb", <<196, m>>) : m \in {48, 50}}
      \cup {Call("ecwb", <<196, 49, v>>) : v \in {0, 130}}
      \cup {Call("ec_settle", <<>>)}
      \cup {Call("eccr", <<1, a2>>) : a2 \in {130, 140}}
      \cup {Call("eccw", <<1, 130, v>>) : v \in {0, 2}}
      \cup {Call("get_fan_rpm", <<f>>) : f \in 0 .. MaxFanId}
      \cup {Call("set_fan_mode", <<m>>) : m \in {FAN_MODE_AUTO, FAN_MODE_MANUAL}}
      \cup {Call("set_fan_profile", <<p>>) : p \in {0, 3, 4, 256}}
      \cup {Call("set_fan_speed", <<f, v>>) : f \in 0 .. MaxFanId, v \in {0, 255, 256}}
      \cup {Call("send_soc_temp", <<t>>) : t \in Temps}
      \cup {Call("set_suspend_mode", <<m>>) : m \in {0, 1}}
      \cup {Call("set_keyboard_backlight", c) : c \in {<<0, 0, 0>>, <<255, 0, 170>>}}

InitEC ==
    /\ mainIdle
    /\ pairIdle
    /\ info \in DOMAIN MODELS
    /\ rpmIdle
    /\ loopIdle
    /\ calIdle
    /\ \E c \in ECCalls :
         /\ ecCall = c
         /\ todo = Script(c)
         /\ ecWarn = Warns(c, info)
    /\ bus = <<>>
    /\ res = <<>>
    /\ ecPc = "running"
    /\ ecExc = ""
    /\ polls = 0

NextEC ==
    \/ ECBadRequest /\ UNCHANGED <<pairVars, mainVars, rpmVars, loopVars, calVars>>
    \/ ECSend /\ UNCHANGED <<pairVars, mainVars, rpmVars, loopVars, calVars>>
    \/ ECRead /\ UNCHANGED <<pairVars, mainVars, rpmVars, loopVars, calVars>>
    \/ ECPoll /\ UNCHANGED <<pairVars, mainVars, rpmVars, loopVars, calVars>>

SpecEC == InitEC /\ [][NextEC]_vars

\* the operation is not stopped from outside: a transaction it is about to
\* send is sent (the device answers busy at most MaxPolls times in a row)
SpecECFair == SpecEC /\ WF_vars(NextEC)

(***************************************************************************)
(* Properties of the EC operations (SpecEC).                               *)
(***************************************************************************)
\* C4: a transaction that fails at the transport ends the operation with
\* the transport's own exception: it is never sent again and no later
\* transaction of the operation is sent (a failed transaction is always the
\* last one on the bus, and the operation has raised OSError).
Thm_C4_NoRetry ==
    \A i \in 1 .. Len(bus) :
        ~bus[i].ok => (i = Len(bus) /\ ecPc = "raised" /\ ecExc = "OSError")

\* C4 witness: an indexed write whose third transaction failed, its
\* remaining writes and settle never sent
Wit_C4_FailedMidway ==
    /\ ecCall.fn = "eccw"
    /\ ecPc = "raised"
    /\ Len(bus) = 3
    /\ ~bus[3].ok
    /\ Len(todo) = 3

\* the transaction writing v to the EC register (0xc4, reg), and the one
\* reading that register, byte for byte
RegWrite(reg, v) ==
    <<[addr |-> 91, flags |-> 0, len |-> 3, buf |-> <<16, 196, reg>>],
      [addr |-> 91, flags |-> 0, len |-> 2, buf |-> <<17, v>>]>>
RegRead(reg) ==
    <<[addr |-> 91, flags |-> 0, len |-> 3, buf |-> <<16, 196, reg>>],
      [addr |-> 91, flags |-> 0, len |-> 1, buf |-> <<17>>],
      [addr |-> 91, flags |-> 1, len |-> 1, buf |-> <<>>]>>

\* the one-message transaction writing data to the fan endpoint
FanWrite(data) ==
    <<[addr |-> 118, flags |-> 0, len |-> Len(data), buf |-> data]>>

\* the requests of the transactions of the operation, in the order sent, and
\* those of them that read nothing back
Requests == [i \in 1 .. Len(bus) |-> bus[i].req]
IsWrite(r) == r[Len(r)].flags = 0
WritesSent == SelectSeq(Requests, IsWrite)

\* C12: a set_fan_mode(mode) that returned wrote 0x82 to 0x31, the mode code
\* to 0x32 and 0x01 to 0x30, once each and nothing else (all its other
\* transactions read the busy flag); set_fan_profile(i) and
\* set_suspend_mode(f), for a byte i or f, put one transaction on the bus,
\* {0x24, i} and {0x23, f} to the fan endpoint 0x76, and no other at any
\* time, and they return when it succeeded.
Thm_C12_CommandBytes ==
    /\ (ecCall.fn = "set_fan_mode" /\ ecPc = "returned")
        => /\ WritesSent = <<RegWrite(49, 130), RegWrite(50, ecCall.args[1]),
                            RegWrite(48, 1)>>
           /\ \A i \in 1 .. Len(bus) :
                 ~IsWrite(bus[i].req) => bus[i].req = RegRead(48)
    /\ (ecCall.fn = "set_fan_profile" /\ ecCall.args[1] \in 0 .. 255)
        => /\ Len(bus) <= 1
           /\ \A i \in 1 .. Len(bus) :
                 bus[i].req = FanWrite(<<36, ecCall.args[1]>>)
           /\ (ecPc = "returned") = (Len(bus) = 1 /\ bus[1].ok)
    /\ (ecCall.fn = "set_suspend_mode" /\ ecCall.args[1] \in 0 .. 255)
        => /\ Len(bus) <= 1
           /\ \A i \in 1 .. Len(bus) :
                 bus[i].req = FanWrite(<<35, ecCall.args[1]>>)
           /\ (ecPc = "returned") = (Len(bus) = 1 /\ bus[1].ok)

\* C12 witness: set_fan_mode(FAN_MODE_MANUAL) returned after a busy poll
Wit_C12_ManualSet ==
    /\ ecCall = Call("set_fan_mode", <<2>>)
    /\ ecPc = "returned"
    /\ Len(bus) > 5

\* q is a prefix of r
IsPrefix(q, r) == Len(q) <= Len(r) /\ \A i \in 1 .. Len(q) : q[i] = r[i]

\* the register writes of set_fan_speed(f, v): select the fan, set the duty
DutyWrites(f, v) ==
    <<RegWrite(49, 140), RegWrite(50, f), RegWrite(48, 1),
      RegWrite(49, 138), RegWrite(50, v), RegWrite(48, 1)>>

\* C13: set_fan_speed(f, v), v a byte, warns exactly when f is not below the
\* number of fans, and for every f alike: nothing but a failed transaction
\* makes it raise; its register writes are, in order, those selecting the
\* fan then those setting the duty (all six when it returned); and the
\* first write of the duty follows a poll that read 0 after the fan
\* selection's command write.
Thm_C13_InvalidFanNotFatal ==
    (ecCall.fn = "set_fan_speed" /\ ecCall.args[2] \in 0 .. 255)
        => /\ ecWarn = (ecCall.args[1] >= Len(ModelInfo(info).fans))
           /\ ecPc = "raised"
                => (ecExc = "OSError" /\ ~bus[Len(bus)].ok)
           /\ IsPrefix(WritesSent, DutyWrites(ecCall.args[1], ecCall.args[2]))
           /\ ecPc = "returned"
                => WritesSent = DutyWrites(ecCall.args[1], ecCall.args[2])
           /\ \A i \in 1 .. Len(bus) :
                 bus[i].req = RegWrite(49, 138)
                    => /\ i > 2
                       /\ bus[i - 1].req = RegRead(48)
                       /\ bus[i - 1].data = <<0>>
                       /\ \E k \in 1 .. i - 2 :
                            /\ bus[k].req = RegWrite(48, 1)
                            /\ \A n \in k + 1 .. i - 1 :
                                 bus[n].req = RegRead(48) /\ bus[n].ok

\* C13 witness: set_fan_speed(2, 255) on a machine with two fans warned and
\* returned
Wit_C13_InvalidFanReturned ==
    /\ ecCall = Call("set_fan_speed", <<2, 255>>)
    /\ Len(ModelInfo(info).fans) = 2
    /\ ecWarn
    /\ ecPc = "returned"

\* transaction i of the operation is a poll of the busy flag, and one that
\* read 0
IsPollAt(i) == bus[i].req = RegRead(48)
ReadZeroAt(i) == IsPollAt(i) /\ bus[i].ok /\ bus[i].data = <<0>>

\* C15: the transactions of eccw(a1, a2, val) are polls of (0xc4, 0x30) and
\* the writes of a2 to 0x31, val to 0x32 and a1 to 0x30, in this order and
\* once each; the write to 0x31 directly follows a poll that read 0, the
\* three writes follow each other directly, so the command register is
\* written after both parameters and after a poll that read 0; every
\* transaction after the command write is a poll, and eccw has returned
\* only when the last of them read 0.
Thm_C15_IndexedWriteOrder ==
    ecCall.fn = "eccw"
        => LET a1 == ecCall.args[1]
               a2 == ecCall.args[2]
               val == ecCall.args[3]
           IN  /\ \A i \in 1 .. Len(bus) : IsPollAt(i) \/ IsWrite(bus[i].req)
               /\ IsPrefix(WritesSent, <<RegWrite(49, a2), RegWrite(50, val),
                                         RegWrite(48, a1)>>)
               /\ \A i \in 1 .. Len(bus) :
                     /\ bus[i].req = RegWrite(49, a2)
                          => (i > 1 /\ ReadZeroAt(i - 1))
                     /\ bus[i].req = RegWrite(50, val)
                          => (i > 1 /\ bus[i - 1].req = RegWrite(49, a2)
                                    /\ bus[i - 1].ok)
                     /\ bus[i].req = RegWrite(48, a1)
                          => /\ i > 3
                             /\ bus[i - 1].req = RegWrite(50, val)
                             /\ bus[i - 1].ok
                             /\ \E k \in 1 .. i - 1 : ReadZeroAt(k)
                             /\ \A n \in i + 1 .. Len(bus) : IsPollAt(n)
               /\ ecPc = "returned"
                     => /\ Len(WritesSent) = 3
                        /\ ReadZeroAt(Len(bus))
                        /\ bus[Len(bus) - 1].req = RegWrite(48, a1)
                              \/ IsPollAt(Len(bus) - 1)

\* C15 witness: an eccw that returned after a busy poll before and after its
\* writes
Wit_C15_WroteAfterBusy ==
    /\ ecCall.fn = "eccw"
    /\ ecPc = "returned"
    /\ Len(bus) >= 7
    /\ ~ReadZeroAt(1)
    /\ ~ReadZeroAt(Len(bus) - 1)

\* C16: the transactions of eccr(a1, a2) are, in order: polls of (0xc4,
\* 0x30), the write of a2 to 0x31 directly after a poll that read 0, the
\* write of a1 to 0x30, polls again, the read of (0xc4, 0x32) directly after
\* a poll that read 0 and after the command write, and the write of 0 to
\* 0x32.  An eccr that returned sent each of the three writes once, the
\* write of 0 last and directly after the read, and returns the byte that
\* read delivered.
Thm_C16_IndexedReadOrder ==
    ecCall.fn = "eccr"
        => LET a1 == ecCall.args[1]
               a2 == ecCall.args[2]
               n == Len(bus)
           IN  /\ \A i \in 1 .. n :
                     \/ IsPollAt(i)
                     \/ bus[i].req = RegRead(50)
                     \/ IsWrite(bus[i].req)
               /\ IsPrefix(WritesSent, <<RegWrite(49, a2), RegWrite(48, a1),
                                         RegWrite(50, 0)>>)
               /\ \A i \in 1 .. n :
                     /\ bus[i].req = RegWrite(49, a2)
                          => (i > 1 /\ ReadZeroAt(i - 1))
                     /\ bus[i].req = RegWrite(48, a1)
                          => (i > 1 /\ bus[i - 1].req = RegWrite(49, a2)
                                    /\ bus[i - 1].ok)
                     /\ bus[i].req = RegRead(50)
                          => /\ i > 1 /\ ReadZeroAt(i - 1)
                             /\ \E k \in 1 .. i - 2 :
                                  /\ bus[k].req = RegWrite(48, a1)
                                  /\ \A m \in k + 1 .. i - 1 : IsPollAt(m)
                             /\ \A m \in 1 .. n :
                                  bus[m].req = RegRead(50) => m = i
                     /\ bus[i].req = RegWrite(50, 0)
                          => /\ i = n
                             /\ bus[i - 1].req = RegRead(50)
                             /\ bus[i - 1].ok
               /\ ecPc = "returned"
                     => /\ Len(WritesSent) = 3
                        /\ bus[n].req = RegWrite(50, 0)
                        /\ bus[n].ok
                        /\ RetVal(ecCall, res) = bus[n - 1].data[1]

\* C16 witness: an eccr that returned 255 after a busy poll in its second
\* settle
Wit_C16_ReadAfterBusy ==
    /\ ecCall.fn = "eccr"
    /\ ecPc = "returned"
    /\ RetVal(ecCall, res) = 255
    /\ Len(bus) >= 7
    /\ ~ReadZeroAt(Len(bus) - 3)

\* what holds of ec_settle in every state: all its transactions are reads
\* of (0xc4, 0x30); it has returned exactly when the last of them succeeded
\* and read 0, raised exactly when the last of them failed, and otherwise it
\* is still polling, however many busy answers it has had
SettleOnlyPolls ==
    ecCall.fn = "ec_settle"
        => LET n == Len(bus)
           IN  /\ \A i \in 1 .. n : IsPollAt(i)
               /\ \A i \in 1 .. n - 1 : bus[i].ok /\ bus[i].data # <<0>>
               /\ (ecPc = "returned") = (n > 0 /\ ReadZeroAt(n))
               /\ (ecPc = "raised") = (n > 0 /\ ~bus[n].ok)
               /\ (ecPc = "running")
                     = (n = 0 \/ (bus[n].ok /\ bus[n].data # <<0>>))
               /\ ecPc = "running" => polls = n

\* C17: ec_settle only reads (0xc4, 0x30), returns exactly when a poll read
\* 0 and has no other way of giving up than a failed transaction; on a
\* device that stops answering busy it ends.
Thm_C17_SettlePolls ==
    /\ []SettleOnlyPolls
    /\ (ecCall.fn = "ec_settle" /\ ecPc = "running")
          ~> (ecPc \in {"returned", "raised"})

\* C17 witness: ec_settle still polling after MaxPolls busy answers
Wit_C17_StillPolling ==
    /\ ecCall.fn = "ec_settle"
    /\ ecPc = "running"
    /\ polls = MaxPolls
    /\ Len(bus) = MaxPolls
    /\ \A i \in 1 .. Len(bus) : bus[i].ok /\ bus[i].data = <<255>>

\* the command write of the log entry e found in 0x31, and for eccw in 0x32,
\* what its own call put there
OwnValues(e) ==
    LET c == procs[e.op].c
    IN  /\ e.sel = c.args[2]
        /\ c.fn = "eccw" => e.val = c.args[3]

\* C18: when the indexed operations run strictly one after another, every
\* write to 0x30 finds in 0x31 / 0x32 the values of its own operation (that
\* interleaved operations reach a write to 0x30 over the other's values is
\* the witness).
Thm_C18_SerialFindsOwn ==
    serial => \A i \in 1 .. Len(cmdLog) : OwnValues(cmdLog[i])

\* C18 witness: two interleaved eccw, both returned, the first having written
\* 0x30 while 0x31 and 0x32 held the selector and value of the second
Wit_C18_Corrupted ==
    /\ ~serial
    /\ procs[1].c = Call("eccw", <<1, 140, 1>>)
    /\ procs[2].c = Call("eccw", <<1, 130, 2>>)
    /\ procs[1].pc = "returned"
    /\ procs[2].pc = "returned"
    /\ \E i \in 1 .. Len(cmdLog) :
         cmdLog[i] = [op |-> 1, sel |-> 130, val |-> 2]

(***************************************************************************)
(* Properties of the two loops (SpecLoops).                                *)
(***************************************************************************)
\* the loop has opened at least one zone and entered  while True
LoopStarted == loopPc \notin {"idle", "start"} /\ zones > 0

\* C1 as stated: once the temperature report loop has started it never
\* stops: it is always reading, reporting or sleeping.
Orig_C1_RunsForever ==
    (prog = "temp-loop" /\ LoopStarted)
        => loopPc \in {"read", "report", "sending", "sleep"}

\* C2 as stated: in both loops a sensor read that fails does not stop the
\* loop.
Orig_C2_ReadFailureTolerated ==
    readFailed => loopPc # "raised"

\* C9 as stated: every cycle of the backlight loop ends with exactly one
\* backlight write issued in the current run of equal temperature samples.
Orig_C9_ExactlyOneWrite ==
    (prog = "fire" /\ loopPc = "sleep") => runWrites = 1

\* C9 as amended: a backlight write is issued only when the triple computed
\* differs from the triple last written (no write repeats the triple of the
\* write before it), so a run of cycles with equal temperature samples
\* issues at most one write; a cycle ends with the computed triple being
\* the one last written.
Thm_C9_WriteOnlyOnChange ==
    /\ ~rewrote
    /\ runWrites <= 1
    /\ loopPc = "writing" => (rgb # cur /\ lastWritten = rgb)
    /\ (prog = "fire" /\ loopPc = "sleep") => (cur = rgb /\ lastWritten = rgb)

\* C9 witness: a run of at least two cycles with equal samples, one write
Wit_C9_RunOneWrite ==
    /\ prog = "fire"
    /\ loopPc = "sleep"
    /\ runLen >= 2
    /\ runWrites = 1

\* the mapping of C10, with the value green is to saturate to
FireMapping(greenMax) ==
    (prog = "fire" /\ rgb # <<>>)
        => /\ lastSample <= 40000 => rgb = <<0, 0, 0>>
           /\ lastSample >= 70000 => (rgb[1] = 255 /\ rgb[2] = greenMax)
           /\ lastSample <= 55000 => rgb[3] = 0
           /\ lastSample >= 85000 => rgb[3] = 255

\* C10 as stated: (0,0,0) up to 40 C; from 70 C red and green are both 255;
\* blue is 0 up to 55 C; from 85 C blue is 255.
Orig_C10_GreenSaturates255 == FireMapping(255)

\* C10 as amended: (0,0,0) up to 40 C; from 70 C red is 255 and green is at
\* its maximum, 128 (green is halved); blue is 0 up to 55 C; from 85 C blue
\* is 255.
Thm_C10_FireMapping == FireMapping(128)

\* C10 witness: a sample of 85 C or more mapped to full red, green and blue
Wit_C10_Saturated ==
    /\ prog = "fire"
    /\ lastSample >= 85000
    /\ rgb = <<255, 128, 255>>

\* the largest element of a non-empty sequence of integers
SeqMax(q) == CHOOSE x \in {q[i] : i \in 1 .. Len(q)} :
                 \A i \in 1 .. Len(q) : q[i] <= x

\* the deci-Celsius values a temperature of m millidegrees may be reported
\* as: an integer nearest to m / 100, clamped to 0 .. 2000
Reportable(m) ==
    {Min(Max(d, 0), 2000) :
        d \in {e \in (m \div 100 - 1) .. (m \div 100 + 1) :
                 100 * e - m <= 50 /\ m - 100 * e <= 50}}

\* the single transaction of a report of d deci-Celsius
ReportOf(d) == <<WriteMsg(FAN_ADDR, <<32, 1, 2, d % 256, d \div 256>>)>>

\* C11: whenever the temperature loop has sent its report of a cycle, every
\* zone has been read and the report is the one transaction to the fan
\* endpoint 0x20 0x01 0x02 lo hi, lo and hi being the bytes of the largest
\* reading of the cycle in deci-Celsius, rounded and clamped to 0 .. 2000;
\* the readings 42.3, 39.1, 45.0 are reported as 0xC2 0x01.
Thm_C11_ReportsMax ==
    (prog = "temp-loop" /\ loopPc = "sending" /\ bus # <<>>)
        => /\ Len(readings) = zones
           /\ Len(bus) = 1
           /\ \E d \in Reportable(SeqMax(readings)) : bus[1].req = ReportOf(d)
           /\ readings = <<42300, 39100, 45000>>
                => bus[1].req[1].buf = <<32, 1, 2, 194, 1>>

\* C11 witness: the readings 42.3, 39.1, 45.0 reported as 0xC2 0x01
Wit_C11_Example ==
    /\ prog = "temp-loop"
    /\ loopPc = "sending"
    /\ readings = <<42300, 39100, 45000>>
    /\ Len(bus) = 1
    /\ bus[1].ok
    /\ bus[1].req[1].addr = FAN_ADDR
    /\ bus[1].req[1].buf = <<32, 1, 2, 194, 1>>

\* C20: a loop that opened none of the thermal zones has returned, and a
\* loop has returned only in that case; it has called no EC function, put
\* no transaction on the bus, read no sensor and computed or written no
\* backlight triple.
Thm_C20_NoZonesNoTraffic ==
    /\ (zones = 0 /\ loopPc # "start" /\ failedAt # "open")
         => loopPc = "returned"
    /\ loopPc = "returned"
         => /\ zones = 0
            /\ ecCall = NoCall
            /\ ecPc = "idle"
            /\ bus = <<>>
            /\ readings = <<>>
            /\ rgb = <<>>
            /\ lastWritten = <<>>
            /\ cur = <<>>

\* C20 witness: the backlight effect loop returned with no zone opened
Wit_C20_ReturnedAtOnce ==
    /\ prog = "fire"
    /\ loopPc = "returned"
    /\ zones = 0
    /\ bus = <<>>

(***************************************************************************)
(* Properties of the calibration routine (SpecCalib).                      *)
(***************************************************************************)
\* C3 as stated: on every way of leaving measure_fan_model after it has
\* switched to Manual, the switch back to Auto has been issued.
Orig_C3_AutoRestored ==
    (calPc \in {"done", "raised"} /\ manualSet) => autoIssued

(***************************************************************************)
(* Properties of the process (SpecMain).                                   *)
(***************************************************************************)
\* the initialization failures: a model not in MODELS, or a bus device
\* that is missing, cannot be opened or is owned by a driver
InitFailed == model \notin DOMAIN MODELS \/ fault # "none"

\* the invalid command lines: an unknown command, a missing or malformed
\* argument
InvalidUsage ==
    /\ argv # <<>>
    /\ \/ argv[1] \notin {"get-speed", "set-speed", "mode", "profile",
                          "temp-loop", "suspend", "measure-rpm", "kb"}
       \/ argv[1] \in {"set-speed", "mode", "profile", "suspend", "kb"}
            /\ Len(argv) < 2
       \/ argv[1] \in {"set-speed", "profile", "suspend"}
            /\ Len(argv) >= 2 /\ argv[2] \notin IntArgs
       \/ argv[1] = "mode" /\ Len(argv) >= 2 /\ argv[2] \notin {"auto", "manual"}
       \/ argv[1] = "kb" /\ Len(argv) >= 2 /\ argv[2] \notin Colours

\* C14 as stated: a process that exited after an initialization failure or
\* on an invalid command line exited with a nonzero status.
Orig_C14_NonzeroExit ==
    (mainPc = "exited" /\ (InitFailed \/ InvalidUsage)) => status # 0

\* the lowest duty at which some fan read a non-zero rpm in the downward
\* sweep
LowestSpinning ==
    CHOOSE d \in {firsts[j] : j \in 1 .. NumFans} :
        \A j \in 1 .. NumFans : firsts[j] >= d

\* the upward sweep is over
SweptUp == calPc \in {"fit", "auto", "done"}

\* C19: the duties of the upward sweep start at the lowest duty at which a
\* fan read a non-zero rpm in the downward sweep, go up by step and stay
\* below 255; a fan is read at the duties visited, in order, until its first
\* non-zero read, which sets its threshold to that duty, once, and after
\* which it is read no more; a fan without a non-zero read stays at 255; the
\* sweep is over either at the first duty at which every fan has a
\* threshold or, with a fan still at 255, at the last duty of the range.
Thm_C19_UpwardSweep ==
    upLog # <<>>
        => /\ upLog[1] = LowestSpinning
           /\ \A i \in 1 .. Len(upLog) :
                upLog[i] = upLog[1] + (i - 1) * step /\ upLog[i] < 255
           /\ \A j \in 1 .. NumFans :
                LET r == upReads[j]
                IN  /\ Len(r) <= Len(upLog)
                    /\ \A i \in 1 .. Len(r) :
                         /\ r[i][1] = upLog[i]
                         /\ r[i][2] => i = Len(r)
                    /\ spinWrites[j] <= 1
                    /\ IF r # <<>> /\ r[Len(r)][2]
                       THEN first_spins[j] = r[Len(r)][1] /\ spinWrites[j] = 1
                       ELSE first_spins[j] = 255 /\ spinWrites[j] = 0
           /\ SweptUp
                => LET last == upLog[Len(upLog)]
                   IN  IF \A j \in 1 .. NumFans : first_spins[j] # 255
                       THEN \E j \in 1 .. NumFans : first_spins[j] = last
                       ELSE /\ last + step >= 255
                            /\ \A j \in 1 .. NumFans :
                                 first_spins[j] = 255
                                    => Len(upReads[j]) = Len(upLog)

\* C19 witness: a sweep over three duties that stopped early, the two fans
\* with different thresholds
Wit_C19_StoppedEarly ==
    /\ calPc = "done"
    /\ Len(upLog) = 3
    /\ upLog[3] + step < 255
    /\ first_spins[1] = upLog[3]
    /\ first_spins[2] = upLog[1]

=============================================================================
